---------------------------- MODULE Spec2Model ----------------------------
(***************************************************************************)
(* A model of tidal-rpc (src/WinMain.cpp): the media-session observer, the *)
(* track-change pipeline parseTrack, the artwork publisher                 *)
(* UploadCoverArtAsync and the presence reporter.                          *)
(*                                                                         *)
(* Scheduling.  wWinMain calls init_apartment() (multi-threaded), the two  *)
(* notification handlers are invoked by the media subsystem and resume on  *)
(* pool threads after `co_await 300ms`, and the tray command runs on the   *)
(* message-loop thread.  A run of parseTrack is therefore a process of its *)
(* own.  Its steps are the blocks of code between two suspension points;   *)
(* the entry test of g_isParsing (line 279) and the construction of the    *)
(* ParsingGuard (line 283) are two steps, because g_isParsing is a plain   *)
(* bool shared by these threads and nothing makes test-and-set atomic.     *)
(*                                                                         *)
(* Text.  Titles, artists and albums are only copied and compared, so they *)
(* are opaque strings.  Texts whose characters the code inspects (the      *)
(* application id, the child's output, the artwork URL) are sequences of   *)
(* one-character strings.                                                  *)
(***************************************************************************)
EXTENDS Naturals, Sequences, FiniteSets

\* Number of handler/run coroutines that can exist at the same time.
MaxRuns == 2

\* Number of notifications and tray commands a behaviour can contain.
MaxEvents == 2

\* Length of the child outputs the artwork publisher is applied to on its own.
MaxOutput == 4

VARIABLES
    mainPc,                         \* position of wWinMain
    osCurrent,                      \* the session manager's current session
    nowPlaying,                     \* media properties each session exposes
    g_currentSession,
    g_mediaPropertiesChangedToken,
    subs,                           \* handlers registered per session
    g_lastTrackProcessed,
    g_isParsing,
    presence,                       \* last request given to the Discord client
    runs,                           \* the handler / parseTrack coroutines
    scratch,                        \* runs whose temp file exists on disk
    lastRun,                        \* the run that returned in the last step
    prev,                           \* history: the previous run, if it ran alone
    staleWrite,                     \* history: cache written by a run older
                                    \* than the last session change
    events                          \* notifications and commands so far

vars == <<mainPc, osCurrent, nowPlaying, g_currentSession,
          g_mediaPropertiesChangedToken, subs, g_lastTrackProcessed,
          g_isParsing, presence, runs, scratch, lastRun, prev, staleWrite,
          events>>

RunIds == 1..MaxRuns

-----------------------------------------------------------------------------
(* Text helpers *)

LF == "\n"
CR == "\r"

npos == 0

\* std::wstring_view::find: position of the first occurrence, or npos.
find(s, pat) ==
    LET hits == {i \in 1..(Len(s) + 1) :
                    /\ i + Len(pat) - 1 <= Len(s)
                    /\ SubSeq(s, i, i + Len(pat) - 1) = pat}
    IN  IF hits = {} THEN npos
        ELSE CHOOSE i \in hits : \A j \in hits : i <= j

Count(s, x) == Cardinality({i \in 1..Len(s) : s[i] = x})

-----------------------------------------------------------------------------
(* The operating system's side *)

NoSession == "nullptr"
Sessions == {"s1", "s2"}

\* SourceAppUserModelId of each session.
AppId(s) ==
    IF s = "s1"
    THEN <<"c","o","m",".","T","I","D","A","L",".","e","x","e">>
    ELSE <<"S","p","o","t","i","f","y",".","e","x","e","!","A","p","p">>

TIDAL == <<"T","I","D","A","L">>

IsTargetFindAsBool(appId) == find(appId, TIDAL) # 1

\* appIdView.find(L"TIDAL") != std::wstring::npos
IsTarget(appId) == find(appId, TIDAL) # npos

\* What a session can be playing: the media properties the fetch returns.
MediaProps ==
    { [title |-> "Song A", artist |-> "Artist A", album |-> "Album 1", thumbnail |-> TRUE],
      [title |-> "Song A", artist |-> "Artist A", album |-> "Album 2", thumbnail |-> FALSE],
      [title |-> "",       artist |-> "",         album |-> "",        thumbnail |-> FALSE] }

NoProps == [title |-> "", artist |-> "", album |-> "", thumbnail |-> FALSE]

\* What curl.exe can print on its standard output.
UrlText == <<"h">>
ErrorTag == <<"E","r","r","o","r",":">>
ExceptionTag == <<"E","x","c","e","p","t","i","o","n",":">>

ChildOutputs ==
    { UrlText \o <<LF>>,
      <<>>,
      ErrorTag \o <<" ","5","0","3",CR,LF>>,
      <<"<">> \o ErrorTag }

\* curl.exe -s -F file=@... http://0x0.st: the service answers a successful
\* upload with the URL of the file and a newline.
UploadedOutputs == { UrlText \o <<LF>> }

\* A byte that is not part of a well-formed UTF-8 sequence, and the character
\* U+FFFD that MultiByteToWideChar(CP_UTF8, 0, ...) puts in its place.
BadByte == "xFF"
Replacement == "uFFFD"

-----------------------------------------------------------------------------
(* Values of the program's types *)

\* trackInfo{} : a default-constructed trackInfo.
EmptyTrack == [title |-> "", artist |-> "", album |-> "", coverArtUrl |-> <<>>]

\* A default-constructed winrt::event_token: it names no registration.
NoToken == [session |-> NoSession, live |-> FALSE]

NoPresence == [kind |-> "none", activity |-> <<>>]

\* A UTF-16 code unit that is half of no surrogate pair.
LoneSurrogate == "uD800"

\* ws2s: WideCharToMultiByte(CP_UTF8, 0, ...).  The characters of the text
\* are kept, re-encoded; a lone surrogate becomes U+FFFD; the empty text
\* gives the empty string.
ws2s(wstr) ==
    [i \in 1..Len(wstr) |->
        IF wstr[i] = LoneSurrogate THEN Replacement ELSE wstr[i]]

updatePresenceAlwaysLarge(track) ==
    [kind |-> "update",
     activity |->
        [type       |-> "Listening",
         name       |-> track.artist,
         details    |-> track.title,
         state      |-> track.artist,
         largeImage |-> <<"set", ws2s(track.coverArtUrl)>>,
         smallImage |-> "tidal-icon"]]

\* updatePresence: the request handed to client->UpdateRichPresence.  Titles
\* and artists are opaque here, so their ws2s is the value itself.
updatePresence(track) ==
    [kind |-> "update",
     activity |->
        [type       |-> "Listening",
         name       |-> track.artist,
         details    |-> track.title,
         state      |-> track.artist,
         largeImage |-> IF track.coverArtUrl # <<>>
                        THEN <<"set", ws2s(track.coverArtUrl)>> ELSE <<>>,
         smallImage |-> "tidal-icon"]]

\* clearPresence: client->ClearRichPresence().
clearPresence == [kind |-> "clear", activity |-> <<>>]

-----------------------------------------------------------------------------
(* Artwork publisher *)

\* The ways the synchronous part of UploadCoverArtAsync can go.
UploadOutcomes ==
    {"noTempPath", "noTempFile", "noPipe", "noHandleInfo", "noSpawn", "spawned"}

PopTrailingLF(wstr) ==
    IF wstr # <<>> /\ wstr[Len(wstr)] = LF
    THEN SubSeq(wstr, 1, Len(wstr) - 1)
    ELSE wstr

\* if (!wstr.empty() && (wstr.back() == L'\n' || wstr.back() == L'\r')) wstr.pop_back();
PopTrailing(wstr) ==
    IF wstr # <<>> /\ wstr[Len(wstr)] \in {LF, CR}
    THEN SubSeq(wstr, 1, Len(wstr) - 1)
    ELSE wstr

\* Lines 250-252: MultiByteToWideChar(CP_UTF8, 0, ...).  An ASCII byte gives
\* the same character, a byte of no well-formed sequence gives U+FFFD, and an
\* output of size 0 gives the empty text.
MultiByteToWideChar(output) ==
    [i \in 1..Len(output) |->
        IF output[i] = BadByte THEN Replacement ELSE output[i]]

\* Lines 232-245: the text in `output` before it is converted.
CapturedOutput(outcome, output) ==
    IF outcome = "spawned" THEN output
    ELSE ErrorTag \o <<" ","c","o","d","e"," ","2">>

\* The text UploadCoverArtAsync returns.  `output` is what the child printed
\* (read only when it was spawned).
UploadCoverArtAsync(outcome, output) ==
    CASE outcome = "noTempPath"   -> ErrorTag \o <<" ","p","a","t","h">>
      [] outcome = "noTempFile"   -> ErrorTag \o <<" ","f","i","l","e">>
      [] outcome = "noPipe"       -> ErrorTag \o <<" ","p","i","p","e">>
      [] outcome = "noHandleInfo" -> ErrorTag \o <<" ","i","n","f","o">>
      [] OTHER                    ->
            PopTrailing(PopTrailing(
                MultiByteToWideChar(CapturedOutput(outcome, output))))

\* Line 182: the ofstream creates the temp file, unless the call returned
\* before it or the file could not be opened.
TempFileCreated(outcome) == outcome \notin {"noTempPath", "noTempFile"}

TempFileDeletedAtEndOnly(outcome) == outcome \in {"noSpawn", "spawned"}

\* Lines 197, 203 and 248: the return paths that call DeleteFileW.
TempFileDeleted(outcome) ==
    outcome \in {"noPipe", "noHandleInfo", "noSpawn", "spawned"}

\* Does the call block on the child (lines 235-239) before it returns?
ScratchWhileBlocked(outcome) == outcome = "spawned"

\* The temp files once the call in coroutine r has returned.
TempFilesAfter(r, outcome, files) ==
    IF TempFileDeleted(outcome) THEN files \ {r}
    ELSE IF TempFileCreated(outcome) THEN files \cup {r}
    ELSE files

CoverArtUrlUnchecked(uploadedUrl) == uploadedUrl

\* parseTrack, lines 333-342: the coverArtUrl stored for an upload result.
CoverArtUrl(uploadedUrl) ==
    IF /\ uploadedUrl # <<>>
       /\ find(uploadedUrl, ErrorTag) = npos
       /\ find(uploadedUrl, ExceptionTag) = npos
    THEN uploadedUrl
    ELSE <<>>

\* parseTrack, lines 333-342: what the run logs about the text an upload
\* call returned: "Upload successful: ..." on std::cout, "Failed to upload
\* cover art: ..." on std::cerr, or nothing when the text is empty.
UploadLog(uploaded) ==
    IF uploaded.outcome = "none" \/ uploaded.text = <<>> THEN "none"
    ELSE IF CoverArtUrl(uploaded.text) # <<>> THEN "successful"
    ELSE "failed"

-----------------------------------------------------------------------------
(* The pipeline's decisions *)

EntryRejectsInverted(force, flag) == force /\ flag

EntryRejectsForcedToo(force, flag) == flag

\* parseTrack, line 279: if (!force && g_isParsing) co_return;
EntryRejects(force, flag) == ~force /\ flag

\* ParsingGuard(bool& flag) : m_flag(flag) { m_flag = true; }
ParsingGuardCtor(flag) == TRUE

ParsingGuardDtorNoClear(flag) == flag

\* ~ParsingGuard() { m_flag = false; }
ParsingGuardDtor(flag) == FALSE

IsDuplicateWithAlbum(force, track, cache) ==
    /\ ~force
    /\ track.title = cache.title
    /\ track.artist = cache.artist
    /\ track.album = cache.album

IsDuplicateIgnoringForce(force, track, cache) ==
    /\ track.title = cache.title
    /\ track.artist = cache.artist

\* parseTrack, line 301: the cache check.
IsDuplicate(force, track, cache) ==
    /\ ~force
    /\ track.title = cache.title
    /\ track.artist = cache.artist

CandidateTrackNoAlbum(mp) ==
    [title |-> mp.title, artist |-> mp.artist, album |-> "",
     coverArtUrl |-> <<>>]

\* parseTrack, lines 294-298: the candidate track built from the properties.
CandidateTrack(mp) ==
    [title |-> mp.title, artist |-> mp.artist, album |-> mp.album,
     coverArtUrl |-> <<>>]

-----------------------------------------------------------------------------
(* Coroutines *)

\* No call of UploadCoverArtAsync was made.
NoUpload == [outcome |-> "none", output |-> <<>>, text |-> <<>>]

\* A free coroutine slot.
IdleRun ==
    [pc |-> "idle", force |-> FALSE, origin |-> "none", fresh |-> FALSE,
     session |-> NoSession, track |-> EmptyTrack, hit |-> FALSE,
     late |-> FALSE, calls |-> <<>>]

\* No run reported or returned in the last step.
NoRun ==
    [path |-> "none", at |-> "none", force |-> FALSE, origin |-> "none",
     fetched |-> FALSE, track |-> EmptyTrack, hit |-> FALSE,
     late |-> FALSE, calls |-> <<>>, outcome |-> "none", output |-> <<>>,
     uploaded |-> <<>>, logged |-> "none"]

\* A call of UploadCoverArtAsync: how it went, what the child printed, and the
\* text the call returned.
Upload(outcome, output) ==
    [outcome |-> outcome, output |-> output,
     text |-> UploadCoverArtAsync(outcome, output)]

NoPrev == [title |-> "", artist |-> "", how |-> "none"]

Idle == {r \in RunIds : runs[r].pc = "idle"}

\* The n free slots with the lowest numbers.
FirstIdle(n) == {r \in Idle : Cardinality({q \in Idle : q < r}) < n}

\* A run that has passed the test of line 279 and has not returned.
InFlight(r) == runs[r].pc \notin {"idle", "delay"}

Others(r) == {q \in RunIds \ {r} : InFlight(q)}

\* History, kept for forced runs: run r has its metadata, or receives it in
\* this step, while another run in flight already has its own: r fetched
\* after that run.
FetchedLate(r) ==
    \/ runs[r].late
    \/ /\ runs[r].force
       /\ runs[r].pc = "fetch"
       /\ \E q \in Others(r) :
             runs[q].pc \in {"open", "copy", "load", "upload", "store"}

\* A handler coroutine starts and suspends in co_await 300ms.
Delayed == [IdleRun EXCEPT !.pc = "delay", !.origin = "handler"]

\* g_currentSession.MediaPropertiesChanged(token): remove the registration
\* the token names, if it is one of this session's.
Revoked(session, token, registered) ==
    IF session # NoSession /\ token.live /\ token.session = session
    THEN [registered EXCEPT ![session] = @ - 1]
    ELSE registered

TokenAfterRevoke(session, token) ==
    IF session # NoSession /\ token.session = session
    THEN [token EXCEPT !.live = FALSE]
    ELSE token

\* RegisterMediaPropertiesChangedHandler on `session`.
Registered(session, registered) ==
    IF session # NoSession
    THEN [registered EXCEPT ![session] = @ + 1]
    ELSE registered

TokenAfterRegister(session, token) ==
    IF session # NoSession
    THEN [session |-> session, live |-> TRUE]
    ELSE token

-----------------------------------------------------------------------------
Init ==
    /\ mainPc = "startup"
    /\ osCurrent \in Sessions \cup {NoSession}
    /\ nowPlaying \in [Sessions -> MediaProps]
    /\ \A s \in Sessions : ~IsTarget(AppId(s)) => nowPlaying[s] = NoProps
    /\ g_currentSession = NoSession
    /\ g_mediaPropertiesChangedToken = NoToken
    /\ subs = [s \in Sessions |-> 0]
    /\ g_lastTrackProcessed = EmptyTrack
    /\ g_isParsing = FALSE
    /\ presence = NoPresence
    /\ runs = [r \in RunIds |-> IdleRun]
    /\ scratch = {}
    /\ lastRun = NoRun
    /\ prev = NoPrev
    /\ staleWrite = FALSE
    /\ events = 0

-----------------------------------------------------------------------------
(* parseTrack: entry and exit *)

\* A coroutine that has passed the test of line 279.
Entered(force, origin) ==
    [IdleRun EXCEPT !.pc = "acquire", !.force = force, !.origin = origin,
                    !.fresh = TRUE]

\* prev after a run passes the entry test: a forced run, or a run that starts
\* beside another one, ends the sequence of runs that ran alone.
PrevAfterPass(force) ==
    IF force \/ \E q \in RunIds : InFlight(q) THEN NoPrev ELSE prev

\* The record of a call of parseTrack that returned at line 281.
Rejected(force, origin) ==
    [NoRun EXCEPT !.path = "rejected", !.force = force, !.origin = origin]

\* parseTrack(force) is called in coroutine slot r: lines 279-282.
Call(r, force, origin) ==
    IF EntryRejects(force, g_isParsing)
    THEN /\ runs' = [runs EXCEPT ![r] = IdleRun]
         /\ lastRun' = Rejected(force, origin)
         /\ prev' = prev
    ELSE /\ runs' = [runs EXCEPT ![r] = Entered(force, origin)]
         /\ lastRun' = NoRun
         /\ prev' = PrevAfterPass(force)

\* The record of what run r did in this step.
Record(r, path, at, fetched, track, hit, calls, uploaded) ==
    [path |-> path, at |-> at, force |-> runs[r].force,
     origin |-> runs[r].origin, fetched |-> fetched, track |-> track,
     hit |-> hit, late |-> FetchedLate(r), calls |-> calls,
     outcome |-> uploaded.outcome,
     output |-> uploaded.output, uploaded |-> uploaded.text,
     logged |-> UploadLog(uploaded)]

\* co_return of run r after it passed the entry test: the coroutine ends, the
\* caller blocked in .get() (line 565) goes on, and the run is recorded.
Return(r, path, at, fetched, track, hit, calls, uploaded) ==
    /\ runs' = [runs EXCEPT ![r] = IdleRun]
    /\ lastRun' = Record(r, path, at, fetched, track, hit, calls, uploaded)
    /\ mainPc' = IF runs[r].origin = "startup" THEN "loop" ELSE mainPc
    /\ prev' = IF ~runs[r].force /\ fetched /\ Others(r) = {}
               THEN [title |-> track.title, artist |-> track.artist, how |-> path]
               ELSE NoPrev
    /\ UNCHANGED <<osCurrent, nowPlaying, g_currentSession,
                   g_mediaPropertiesChangedToken, subs, events>>

\* Lines 358-361: updatePresence(track); g_lastTrackProcessed = track; and
\* the return.  Nothing orders the two statements against those of a run on
\* another thread: beside another run in flight the step ends before line
\* 361, and Store is the rest.  A run that is alone goes through both at
\* once; the session handlers and the tray command, which touch neither the
\* presence nor a non-empty cache, give the same state before or in between.
\* Either way the step is recorded as the run's report, and a run that
\* stands before line 361 keeps only the track it is about to store.
Report(r, track, hit, calls, uploaded) ==
    /\ presence' = updatePresence(track)
    /\ IF Others(r) = {}
       THEN /\ g_lastTrackProcessed' = track
            /\ staleWrite' = ~runs[r].fresh
            /\ g_isParsing' = ParsingGuardDtor(g_isParsing)
            /\ Return(r, "reported", "none", TRUE, track, hit,
                      calls \o <<"updatePresence">>, uploaded)
       ELSE /\ runs' = [runs EXCEPT ![r].pc = "store", ![r].track = track,
                                    ![r].hit = FALSE, ![r].late = FALSE,
                                    ![r].calls = <<>>]
            /\ lastRun' = Record(r, "reported", "none", TRUE, track, hit,
                                 calls \o <<"updatePresence">>, uploaded)
            /\ UNCHANGED <<mainPc, osCurrent, nowPlaying, g_currentSession,
                           g_mediaPropertiesChangedToken, subs,
                           g_lastTrackProcessed, g_isParsing, prev, staleWrite,
                           events>>

CaughtCacheKept == g_lastTrackProcessed

\* Line 374: g_lastTrackProcessed = {}; in the catch block.
CaughtCache == EmptyTrack

CaughtPresenceCleared == clearPresence

\* Lines 370-375: the catch block makes no presence request.
CaughtPresence == presence

\* Lines 370-375 and the return: the catch block.
Caught(r, at, fetched, track, flag) ==
    /\ presence' = CaughtPresence
    /\ g_lastTrackProcessed' = CaughtCache
    /\ staleWrite' = FALSE
    /\ g_isParsing' = ParsingGuardDtor(flag)
    /\ Return(r, "error", at, fetched, track, runs[r].hit, runs[r].calls,
              NoUpload)
    /\ UNCHANGED scratch

ClearedCacheKept == g_lastTrackProcessed

\* Lines 367 and 381: g_lastTrackProcessed = {}; after clearPresence().
ClearedCache == EmptyTrack

\* Lines 363-368 and 377-382 and the return: no session to report.
Clear(r, path, flag) ==
    /\ presence' = clearPresence
    /\ g_lastTrackProcessed' = ClearedCache
    /\ staleWrite' = FALSE
    /\ g_isParsing' = ParsingGuardDtor(flag)
    /\ Return(r, path, "none", FALSE, EmptyTrack, FALSE,
              runs[r].calls \o <<"clearPresence">>, NoUpload)
    /\ UNCHANGED scratch

\* Run r suspends in its next co_await.
Suspend(r, pc, session, track, hit, call) ==
    /\ runs' = [runs EXCEPT ![r].pc = pc, ![r].session = session,
                            ![r].track = track, ![r].hit = hit,
                            ![r].late = FetchedLate(r),
                            ![r].calls = @ \o <<call>>]
    /\ lastRun' = NoRun
    /\ UNCHANGED <<mainPc, osCurrent, nowPlaying, g_currentSession,
                   g_mediaPropertiesChangedToken, subs, g_lastTrackProcessed,
                   presence, prev, staleWrite, events>>

-----------------------------------------------------------------------------
(* The observer and the tray *)

\* wWinMain, lines 561-569: read the current session, subscribe to it and
\* make the initial call of parseTrack, which the main thread waits for.
Startup ==
    /\ mainPc = "startup"
    /\ g_currentSession' = osCurrent
    /\ subs' = Registered(osCurrent, subs)
    /\ g_mediaPropertiesChangedToken' =
          TokenAfterRegister(osCurrent, g_mediaPropertiesChangedToken)
    /\ IF osCurrent = NoSession
       THEN /\ mainPc' = "loop"
            /\ lastRun' = NoRun
            /\ UNCHANGED <<runs, prev>>
       ELSE \E r \in FirstIdle(1) :
            /\ Call(r, FALSE, "startup")
            /\ mainPc' = IF EntryRejects(FALSE, g_isParsing) THEN "loop" ELSE "wait"
    /\ UNCHANGED <<osCurrent, nowPlaying, g_lastTrackProcessed, g_isParsing,
                   presence, scratch, staleWrite, events>>

\* The CurrentSessionChanged handler, lines 545-556, run when the session
\* manager's current session becomes `new`: up to its co_await 300ms.
CurrentSessionChanged(new) ==
    /\ events < MaxEvents
    /\ events' = events + 1
    /\ new # osCurrent
    /\ osCurrent' = new
    /\ subs' = Registered(new, Revoked(g_currentSession,
                                       g_mediaPropertiesChangedToken, subs))
    /\ g_mediaPropertiesChangedToken' =
          TokenAfterRegister(new, TokenAfterRevoke(g_currentSession,
                                                   g_mediaPropertiesChangedToken))
    /\ g_lastTrackProcessed' = EmptyTrack
    /\ g_currentSession' = new
    /\ \E r \in FirstIdle(1) :
          runs' = [q \in RunIds |->
                     IF q = r THEN Delayed ELSE [runs[q] EXCEPT !.fresh = FALSE]]
    /\ lastRun' = NoRun
    /\ prev' = NoPrev
    /\ staleWrite' = FALSE
    /\ UNCHANGED <<mainPc, nowPlaying, g_isParsing, presence, scratch>>

\* Session s now exposes the properties mp; every handler registered on it
\* (lines 394-400) starts and suspends in its co_await 300ms.
MediaPropertiesChanged(s, mp) ==
    /\ events < MaxEvents
    /\ events' = events + 1
    /\ Cardinality(Idle) >= subs[s]
    /\ nowPlaying' = IF IsTarget(AppId(s))
                     THEN [nowPlaying EXCEPT ![s] = mp] ELSE nowPlaying
    /\ subs[s] > 0 \/ nowPlaying' # nowPlaying
    /\ runs' = [q \in RunIds |->
                  IF q \in FirstIdle(subs[s]) THEN Delayed ELSE runs[q]]
    /\ lastRun' = NoRun
    /\ UNCHANGED <<mainPc, osCurrent, g_currentSession,
                   g_mediaPropertiesChangedToken, subs, g_lastTrackProcessed,
                   g_isParsing, presence, scratch, prev, staleWrite>>

\* ShowTrayMenu, lines 470-474: "Force Update" calls parseTrack(true).
ForceUpdate ==
    /\ events < MaxEvents
    /\ events' = events + 1
    /\ mainPc = "loop"
    /\ \E r \in FirstIdle(1) : Call(r, TRUE, "tray")
    /\ UNCHANGED <<mainPc, osCurrent, nowPlaying, g_currentSession,
                   g_mediaPropertiesChangedToken, subs, g_lastTrackProcessed,
                   g_isParsing, presence, scratch, staleWrite>>

\* A handler resumes after its 300 ms and calls parseTrack() (lines 399, 558).
DelayDone(r) ==
    /\ runs[r].pc = "delay"
    /\ Call(r, FALSE, "handler")
    /\ UNCHANGED <<mainPc, osCurrent, nowPlaying, g_currentSession,
                   g_mediaPropertiesChangedToken, subs, g_lastTrackProcessed,
                   g_isParsing, presence, scratch, staleWrite, events>>

-----------------------------------------------------------------------------
(* parseTrack: the steps of a run *)

\* Lines 283-292: take the guard, look at the session, start the fetch.
Acquire(r) ==
    /\ runs[r].pc = "acquire"
    /\ LET flag == ParsingGuardCtor(g_isParsing) IN
       IF g_currentSession = NoSession
       THEN Clear(r, "nosession", flag)
       ELSE \E threw \in BOOLEAN :
            IF threw
            THEN Caught(r, "appId", FALSE, EmptyTrack, flag)
            ELSE IF ~IsTarget(AppId(g_currentSession))
            THEN Clear(r, "nontarget", flag)
            ELSE /\ Suspend(r, "fetch", g_currentSession, EmptyTrack, FALSE,
                         "TryGetMediaPropertiesAsync")
                 /\ g_isParsing' = flag
                 /\ UNCHANGED scratch

\* History: does the fetched (title, artist) equal the cached one (line 301)?
SameAsCache(track) ==
    /\ track.title = g_lastTrackProcessed.title
    /\ track.artist = g_lastTrackProcessed.artist

\* Lines 292-308 and 353-361: the fetch completes; cache check; thumbnail.
FetchDone(r) ==
    /\ runs[r].pc = "fetch"
    /\ \E threw \in BOOLEAN :
       IF threw
       THEN Caught(r, "fetch", FALSE, EmptyTrack, g_isParsing)
       ELSE LET mediaProperties == nowPlaying[runs[r].session]
                track == CandidateTrack(mediaProperties)
            IN  IF IsDuplicate(runs[r].force, track, g_lastTrackProcessed)
                THEN /\ g_isParsing' = ParsingGuardDtor(g_isParsing)
                     /\ Return(r, "duplicate", "none", TRUE, track, TRUE,
                               runs[r].calls, NoUpload)
                     /\ UNCHANGED <<g_lastTrackProcessed, presence, scratch,
                                    staleWrite>>
                ELSE IF mediaProperties.thumbnail
                THEN /\ Suspend(r, "open", runs[r].session, track,
                             SameAsCache(track), "OpenReadAsync")
                     /\ UNCHANGED <<g_isParsing, scratch>>
                ELSE /\ Report(r, track, SameAsCache(track), runs[r].calls,
                             NoUpload)
                     /\ UNCHANGED scratch

AwaitNeverCompletes == {}

\* What an awaited thumbnail operation can give: a thrown hresult_error, a
\* result of zero size, or data.
AwaitResults == {"threw", "empty", "data"}

\* Lines 310-314: OpenReadAsync completes.
OpenDone(r) ==
    /\ runs[r].pc = "open"
    /\ \E res \in AwaitResults :
       CASE res = "threw" -> Caught(r, "open", TRUE, runs[r].track, g_isParsing)
         [] res = "empty" -> /\ Report(r, runs[r].track, runs[r].hit,
                                        runs[r].calls, NoUpload)
                             /\ UNCHANGED scratch
         [] res = "data"  -> /\ Suspend(r, "copy", runs[r].session,
                                        runs[r].track, runs[r].hit, "CopyAsync")
                             /\ UNCHANGED <<g_isParsing, scratch>>

\* Lines 314-320: CopyAsync completes.
CopyDone(r) ==
    /\ runs[r].pc = "copy"
    /\ \E res \in AwaitResults :
       CASE res = "threw" -> Caught(r, "copy", TRUE, runs[r].track, g_isParsing)
         [] res = "empty" -> /\ Report(r, runs[r].track, runs[r].hit,
                                        runs[r].calls, NoUpload)
                             /\ UNCHANGED scratch
         [] res = "data"  -> /\ Suspend(r, "load", runs[r].session,
                                        runs[r].track, runs[r].hit, "LoadAsync")
                             /\ UNCHANGED <<g_isParsing, scratch>>

\* The track with the artwork an upload result gives it.
WithArt(track, uploadedUrl) ==
    [track EXCEPT !.coverArtUrl = CoverArtUrl(uploadedUrl)]

\* Lines 320-331 and 173-229: LoadAsync completes; with bytes in hand
\* UploadCoverArtAsync is called and runs up to the spawn of curl.exe, where
\* it either has failed, and parseTrack goes on at once, or blocks on the child.
LoadDone(r) ==
    /\ runs[r].pc = "load"
    /\ \E res \in AwaitResults :
       CASE res = "threw" -> Caught(r, "load", TRUE, runs[r].track, g_isParsing)
         [] res = "empty" -> /\ Report(r, runs[r].track, runs[r].hit,
                                        runs[r].calls, NoUpload)
                             /\ UNCHANGED scratch
         [] res = "data"  ->
            \E outcome \in UploadOutcomes :
            IF ScratchWhileBlocked(outcome)
            THEN /\ Suspend(r, "upload", runs[r].session, runs[r].track,
                            runs[r].hit, "UploadCoverArtAsync")
                 /\ scratch' = IF TempFileCreated(outcome)
                               THEN scratch \cup {r} ELSE scratch
                 /\ UNCHANGED g_isParsing
            ELSE LET uploaded == Upload(outcome, <<>>) IN
                 /\ Report(r, WithArt(runs[r].track, uploaded.text), runs[r].hit,
                           runs[r].calls \o <<"UploadCoverArtAsync">>, uploaded)
                 /\ scratch' = TempFilesAfter(r, outcome, scratch)

\* Lines 231-261 and 331-358: the child has exited; its output is read, the
\* temp file deleted, the text returned, sniffed and reported.
UploadDone(r) ==
    /\ runs[r].pc = "upload"
    /\ \E output \in ChildOutputs :
       LET uploaded == Upload("spawned", output) IN
       /\ Report(r, WithArt(runs[r].track, uploaded.text), runs[r].hit,
                 runs[r].calls, uploaded)
       /\ scratch' = TempFilesAfter(r, "spawned", scratch)

\* Line 361 and the return: g_lastTrackProcessed = track; leave.
Store(r) ==
    /\ runs[r].pc = "store"
    /\ g_lastTrackProcessed' = runs[r].track
    /\ staleWrite' = ~runs[r].fresh
    /\ g_isParsing' = ParsingGuardDtor(g_isParsing)
    /\ Return(r, "stored", "none", TRUE, runs[r].track, runs[r].hit,
              runs[r].calls, NoUpload)
    /\ UNCHANGED <<presence, scratch>>

-----------------------------------------------------------------------------
Next ==
    \/ Startup
    \/ \E new \in Sessions \cup {NoSession} : CurrentSessionChanged(new)
    \/ \E s \in Sessions, mp \in MediaProps : MediaPropertiesChanged(s, mp)
    \/ ForceUpdate
    \/ \E r \in RunIds : DelayDone(r)
    \/ \E r \in RunIds : Acquire(r)
    \/ \E r \in RunIds : FetchDone(r)
    \/ \E r \in RunIds : OpenDone(r)
    \/ \E r \in RunIds : CopyDone(r)
    \/ \E r \in RunIds : LoadDone(r)
    \/ \E r \in RunIds : UploadDone(r)
    \/ \E r \in RunIds : Store(r)

Spec == Init /\ [][Next]_vars

\* A run that is not suspended executes, and every operating-system operation
\* a run awaits, the upload child included, completes or fails.  Nothing is
\* assumed about notifications, tray commands or the handlers' timers.
RunsProgress ==
    \A r \in RunIds :
        /\ WF_vars(Acquire(r))
        /\ WF_vars(FetchDone(r))
        /\ WF_vars(OpenDone(r))
        /\ WF_vars(CopyDone(r))
        /\ WF_vars(LoadDone(r))
        /\ WF_vars(UploadDone(r))
        /\ WF_vars(Store(r))

FairSpec == Spec /\ RunsProgress

-----------------------------------------------------------------------------
(* The artwork publisher on its own: UploadCoverArtAsync applied to every    *)
(* way its system calls can go and to every child output of up to MaxOutput  *)
(* bytes.  lastRun records the call, and scratch the temp file of the call.  *)

OutputBytes == {"h", LF, CR, BadByte}

Outputs == UNION {[1..n -> OutputBytes] : n \in 0..MaxOutput}

\* The record of a call of UploadCoverArtAsync that has not returned yet.
PublisherCall(outcome, output) ==
    [NoRun EXCEPT !.path = "called", !.outcome = outcome, !.output = output]

InitPublisher ==
    /\ mainPc = "loop"
    /\ osCurrent = NoSession
    /\ nowPlaying = [s \in Sessions |-> NoProps]
    /\ g_currentSession = NoSession
    /\ g_mediaPropertiesChangedToken = NoToken
    /\ subs = [s \in Sessions |-> 0]
    /\ g_lastTrackProcessed = EmptyTrack
    /\ g_isParsing = FALSE
    /\ presence = NoPresence
    /\ runs = [r \in RunIds |-> IdleRun]
    /\ scratch = {}
    /\ \E outcome \in UploadOutcomes, output \in Outputs :
          /\ outcome # "spawned" => output = <<>>
          /\ lastRun = PublisherCall(outcome, output)
    /\ prev = NoPrev
    /\ staleWrite = FALSE
    /\ events = 0

\* Lines 173-262: the call runs to its co_return.
PublisherReturns ==
    /\ lastRun.path = "called"
    /\ lastRun' =
          [lastRun EXCEPT
              !.path = "returned",
              !.uploaded = UploadCoverArtAsync(lastRun.outcome, lastRun.output)]
    /\ scratch' = TempFilesAfter(1, lastRun.outcome, scratch)
    /\ UNCHANGED <<mainPc, osCurrent, nowPlaying, g_currentSession,
                   g_mediaPropertiesChangedToken, subs, g_lastTrackProcessed,
                   g_isParsing, presence, runs, prev, staleWrite, events>>

NextPublisher == PublisherReturns

SpecPublisher == InitPublisher /\ [][NextPublisher]_vars

-----------------------------------------------------------------------------
(* Properties *)

TypeOK ==
    /\ mainPc \in {"startup", "wait", "loop"}
    /\ osCurrent \in Sessions \cup {NoSession}
    /\ g_currentSession \in Sessions \cup {NoSession}
    /\ subs \in [Sessions -> 0..2]
    /\ g_isParsing \in BOOLEAN
    /\ presence.kind \in {"none", "clear", "update"}
    /\ \A r \in RunIds :
          runs[r].pc \in {"idle", "delay", "acquire", "fetch", "open", "copy",
                          "load", "upload", "store"}
    /\ scratch \subseteq RunIds
    /\ events \in 0..MaxEvents

\* The automatic (non-forced) runs in flight.
Automatic == {r \in RunIds : InFlight(r) /\ ~runs[r].force}

\* In this step parseTrack() is called without force: by a handler after its
\* delay, or by wWinMain at startup.
NonForcedCall ==
    \/ \E r \in RunIds : runs[r].pc = "delay" /\ runs'[r].pc # "delay"
    \/ mainPc = "startup" /\ mainPc' # "startup" /\ osCurrent # NoSession

\* In this step a run that had passed the entry test returns.
Returns == \E r \in RunIds : InFlight(r) /\ ~InFlight(r)'

\* In this step the cache write of line 361 is made with `track`, or the run
\* that reports comes to stand before line 361 with `track` to store.
Stores(track) ==
    IF Returns
    THEN g_lastTrackProcessed' = track
    ELSE \E r \in RunIds :
            /\ runs[r].pc # "store"
            /\ runs'[r].pc = "store"
            /\ runs'[r].track = track

\* In this step run r takes the step in which it looks at the session.
LooksAtSession(r) == runs[r].pc = "acquire" /\ runs'[r].pc # "acquire"

Made(run, call) == Count(run.calls, call)

\* C1: a non-forced call of parseTrack made while g_isParsing is set returns
\* at once: the cache, the flag, the presence and the temp files stay as they
\* are, no run is started and no fetch, upload, update or clear call is made.
C1_RejectedRunIsNoOp ==
    [][NonForcedCall /\ g_isParsing =>
          /\ lastRun'.path = "rejected"
          /\ lastRun'.calls = <<>>
          /\ \A r \in RunIds : InFlight(r)' => runs'[r] = runs[r]
          /\ UNCHANGED <<g_lastTrackProcessed, g_isParsing, presence, scratch>>]_vars

C1_Witness ==
    /\ lastRun.path = "rejected"
    /\ g_isParsing
    /\ \E r \in RunIds : InFlight(r)

\* C2: at most one non-forced run is past its entry test and not yet finished.
C2_AtMostOneAutomaticRun == Cardinality(Automatic) <= 1

\* The run that returns in this step is the second of two consecutive
\* non-forced runs that fetched the same (title, artist): the run before it
\* ran alone, and since it returned there has been no session change, no
\* forced run and no other run beside this one.
SecondOfPair ==
    /\ Returns
    /\ ~lastRun'.force
    /\ lastRun'.fetched
    /\ prev.how # "none"
    /\ prev.title = lastRun'.track.title
    /\ prev.artist = lastRun'.track.artist

\* The returning run made no upload and no presence call and left the cache
\* and the presence as they were.
Suppressed ==
    /\ Made(lastRun', "UploadCoverArtAsync") = 0
    /\ Made(lastRun', "updatePresence") = 0
    /\ Made(lastRun', "clearPresence") = 0
    /\ UNCHANGED <<g_lastTrackProcessed, presence>>

\* C3 as stated: of two consecutive non-forced runs that fetch the same
\* (title, artist), the second makes no upload and no presence update and
\* leaves the cache unchanged.
C3_SecondRunSuppressed == [][SecondOfPair => Suppressed]_vars

\* C3 as amended: the same, when the first run ended by reporting its track
\* or as a duplicate, and not in the catch block; the second run then returns
\* as a duplicate, whatever the album and the thumbnail are.
C3_SecondRunSuppressedAfterSuccess ==
    [][SecondOfPair /\ prev.how \in {"reported", "duplicate"} =>
          /\ lastRun'.path = "duplicate"
          /\ lastRun'.calls = <<"TryGetMediaPropertiesAsync">>
          /\ Suppressed]_vars

\* A run that ran alone was suppressed although the album it fetched is not
\* the cached one and the cached track, unlike the fetched one, has artwork.
C3_Witness ==
    /\ lastRun.path = "duplicate"
    /\ ~lastRun.force
    /\ prev.how = "duplicate"
    /\ lastRun.track.album # g_lastTrackProcessed.album
    /\ g_lastTrackProcessed.coverArtUrl # <<>>

\* C4 as stated: every forced run issues a presence update, and afterwards
\* the cache holds the track this run reported.
C4_ForcedRunAlwaysReports ==
    [][Returns /\ lastRun'.force /\ lastRun'.path # "stored" =>
          /\ Made(lastRun', "updatePresence") = 1
          /\ g_lastTrackProcessed' = lastRun'.track]_vars

\* C4 as amended: a forced run whose metadata fetch succeeds is never
\* suppressed as a duplicate; unless a thumbnail operation then throws, it
\* issues one presence update for its track, whatever the cache holds, and
\* the cache then holds that track.
C4_ForcedRunReportsWhatItFetched ==
    [][lastRun'.force /\ lastRun'.fetched =>
          \/ /\ lastRun'.path = "reported"
             /\ Made(lastRun', "updatePresence") = 1
             /\ presence' = updatePresence(lastRun'.track)
             /\ Stores(lastRun'.track)
          \/ /\ lastRun'.path = "stored"
             /\ g_lastTrackProcessed' = lastRun'.track
          \/ /\ lastRun'.path = "error"
             /\ lastRun'.at \in {"open", "copy", "load"}]_vars

\* A forced run reported a track whose (title, artist) was the cached one.
C4_Witness ==
    /\ lastRun.force
    /\ lastRun.path = "reported"
    /\ lastRun.hit
    /\ lastRun.track.title # ""
    /\ g_lastTrackProcessed = lastRun.track

\* In this step run r completes its fetch and makes the cache check.
CacheCheck(r) ==
    /\ runs[r].pc = "fetch"
    /\ runs'[r].pc # "fetch"
    /\ ~(lastRun'.path = "error" /\ lastRun'.at = "fetch")

\* C5: when a run that started after the latest session change makes its
\* cache check, the cache is empty or was written by a run that also started
\* after that change: no run in flight at the change has filled it.
C5_NoStaleCacheAfterSessionChange ==
    [][\A r \in RunIds :
          CacheCheck(r) /\ runs[r].fresh =>
             g_lastTrackProcessed = EmptyTrack \/ ~staleWrite]_vars

\* C6: every run that passed the entry test clears g_isParsing when it
\* returns, whatever the exit path, and the flag is false whenever no run is
\* in flight.
C6_FlagClearedOnEveryExit ==
    /\ [][Returns => ~g_isParsing']_vars
    /\ []((\A r \in RunIds : ~InFlight(r)) => ~g_isParsing)

\* A run returned at the duplicate check and no run is left: the flag is clear.
C6_Witness ==
    /\ lastRun.path = "duplicate"
    /\ ~g_isParsing
    /\ \A r \in RunIds : ~InFlight(r)

\* C7: a run whose metadata fetch throws returns with the cache empty, the
\* flag clear, the presence and the subscriptions as they were, and without
\* a presence call.
C7_FetchErrorEndsOnlyTheRun ==
    [][lastRun'.path = "error" /\ lastRun'.at = "fetch" =>
          /\ g_lastTrackProcessed' = EmptyTrack
          /\ ~g_isParsing'
          /\ Made(lastRun', "updatePresence") = 0
          /\ Made(lastRun', "clearPresence") = 0
          /\ UNCHANGED <<presence, subs, g_mediaPropertiesChangedToken,
                         g_currentSession>>]_vars

\* The fetch threw while a track was shown and a handler was registered.
C7_Witness ==
    /\ lastRun.path = "error"
    /\ lastRun.at = "fetch"
    /\ presence.kind = "update"
    /\ \E s \in Sessions : subs[s] > 0

\* The text begins with "Error:".
ErrorPrefixed(text) == find(text, ErrorTag) = 1

\* C8: when the artwork publisher returns an error-prefixed text the run goes
\* on: it issues exactly one presence update, without artwork, and stores
\* the track, with an empty coverArtUrl, in the cache.
C8_UploadErrorStillReports ==
    [][/\ Made(lastRun', "UploadCoverArtAsync") = 1
       /\ ErrorPrefixed(lastRun'.uploaded)
       =>
          /\ lastRun'.path = "reported"
          /\ Made(lastRun', "updatePresence") = 1
          /\ lastRun'.track.coverArtUrl = <<>>
          /\ presence' = updatePresence(lastRun'.track)
          /\ presence'.activity.largeImage = <<>>
          /\ Stores(lastRun'.track)]_vars

\* The child printed an error text and the track was reported without art.
C8_Witness ==
    /\ lastRun.path = "reported"
    /\ ErrorPrefixed(lastRun.uploaded)
    /\ Len(lastRun.uploaded) = 10
    /\ g_lastTrackProcessed.title = "Song A"
    /\ g_lastTrackProcessed.coverArtUrl = <<>>

\* C9: a run that finds g_currentSession null clears the presence, empties
\* the cache and returns; its only call is clearPresence.
C9_NoSessionClears ==
    [][\A r \in RunIds :
          LooksAtSession(r) /\ g_currentSession = NoSession =>
             /\ lastRun'.path = "nosession"
             /\ lastRun'.calls = <<"clearPresence">>
             /\ presence' = clearPresence
             /\ g_lastTrackProcessed' = EmptyTrack
             /\ ~InFlight(r)']_vars

\* After a notification a run found no session and cleared the presence.
C9_Witness ==
    /\ lastRun.path = "nosession"
    /\ presence = clearPresence
    /\ g_lastTrackProcessed = EmptyTrack
    /\ g_currentSession = NoSession
    /\ events > 0

\* C10: a run, forced or not, that reads an application id without the
\* substring "TIDAL" clears the presence, empties the cache and returns; its
\* only call is clearPresence.
C10_NonTargetClears ==
    [][\A r \in RunIds :
          /\ LooksAtSession(r)
          /\ g_currentSession # NoSession
          /\ find(AppId(g_currentSession), TIDAL) = npos
          /\ ~(lastRun'.path = "error" /\ lastRun'.at = "appId")
          =>
             /\ lastRun'.path = "nontarget"
             /\ lastRun'.calls = <<"clearPresence">>
             /\ presence' = clearPresence
             /\ g_lastTrackProcessed' = EmptyTrack
             /\ ~InFlight(r)']_vars

\* A forced run found a session of another application.
C10_Witness ==
    /\ lastRun.path = "nontarget"
    /\ lastRun.force
    /\ presence = clearPresence
    /\ g_lastTrackProcessed = EmptyTrack

\* C11: a run on a target session whose fetch succeeds, whose track is not a
\* duplicate (it is forced, or the fetched title or artist differs from the
\* cached one) and whose session exposes no thumbnail makes no upload, issues
\* exactly one presence update carrying the fetched title and artist without
\* artwork, and stores exactly that track, with an empty coverArtUrl.
C11_NoThumbnailReportsWithoutArt ==
    [][\A r \in RunIds :
          LET mp == nowPlaying[runs[r].session] IN
          /\ CacheCheck(r)
          /\ ~mp.thumbnail
          /\ \/ runs[r].force
             \/ mp.title # g_lastTrackProcessed.title
             \/ mp.artist # g_lastTrackProcessed.artist
          =>
             /\ lastRun'.path = "reported"
             /\ lastRun'.calls = <<"TryGetMediaPropertiesAsync", "updatePresence">>
             /\ presence'.kind = "update"
             /\ presence'.activity.details = mp.title
             /\ presence'.activity.state = mp.artist
             /\ presence'.activity.largeImage = <<>>
             /\ Stores([title |-> mp.title, artist |-> mp.artist,
                        album |-> mp.album, coverArtUrl |-> <<>>])]_vars

\* A non-forced run reported a track without thumbnail and stored it.
C11_Witness ==
    /\ lastRun.path = "reported"
    /\ ~lastRun.force
    /\ lastRun.calls = <<"TryGetMediaPropertiesAsync", "updatePresence">>
    /\ g_lastTrackProcessed =
          [title |-> "Song A", artist |-> "Artist A", album |-> "Album 2",
           coverArtUrl |-> <<>>]
    /\ presence.activity.largeImage = <<>>

\* C12: whichever way a call of UploadCoverArtAsync goes, the temp file it
\* created is gone once the call has returned: a temp file exists only while
\* its call is blocked on the child process.
C12_NoTempFileAfterReturn == \A r \in scratch : runs[r].pc = "upload"

\* A call that had created its file returned early, at the pipe: no file is
\* left.
C12_Witness ==
    /\ lastRun.outcome = "noPipe"
    /\ lastRun.path = "reported"
    /\ scratch = {}

\* The upload succeeded: the child ran and printed the URL of the file.
UploadSucceeded(run) ==
    run.outcome = "spawned" /\ run.output \in UploadedOutputs

\* C13: the text UploadCoverArtAsync returns begins with "Error:" exactly
\* when the upload failed.
C13_ErrorPrefixIffUploadFailed ==
    [][lastRun'.outcome # "none" =>
          (ErrorPrefixed(lastRun'.uploaded) <=> ~UploadSucceeded(lastRun'))]_vars

IsEol(c) == c \in {LF, CR}

\* The number of CR/LF characters at the end of a text.
TrailingEols(text) ==
    CHOOSE n \in 0..Len(text) :
        /\ \A i \in (Len(text) - n + 1)..Len(text) : IsEol(text[i])
        /\ n < Len(text) => ~IsEol(text[Len(text) - n])

Min(a, b) == IF a < b THEN a ELSE b

\* C14: the text returned for a child's output is that output, converted to
\* wide characters, without its last two characters if both are CR or LF,
\* without its last one if only that one is; every other character, a third
\* trailing CR or LF included, is kept in its place.
C14_StripsAtMostTwoTrailingEols ==
    lastRun.path = "returned" /\ lastRun.outcome = "spawned" =>
        LET out == lastRun.output
            res == lastRun.uploaded
        IN  /\ Len(res) = Len(out) - Min(2, TrailingEols(out))
            /\ \A i \in 1..Len(res) :
                  res[i] = IF out[i] = BadByte THEN Replacement ELSE out[i]

\* An output with three trailing CR/LF characters was returned with one.
C14_Witness ==
    /\ lastRun.path = "returned"
    /\ lastRun.output = <<"h", LF, CR, LF>>
    /\ lastRun.uploaded = <<"h", LF>>

\* C15: at most one MediaPropertiesChanged handler is registered, and it is
\* registered on the session g_currentSession refers to.
C15_OneSubscriptionOnCurrentSession ==
    /\ \A s \in Sessions : subs[s] <= 1
    /\ \A s, t \in Sessions : subs[s] > 0 /\ subs[t] > 0 => s = t
    /\ \A s \in Sessions : subs[s] > 0 => s = g_currentSession

\* In this step run r returns from its cache check as a duplicate.
SuppressedAsDuplicate(r) == CacheCheck(r) /\ lastRun'.path = "duplicate"

\* C16: once the cache has been emptied, the next non-forced run that fetches
\* the metadata of a target session is not suppressed as a duplicate, whatever
\* the fetched title and artist are, the empty ones included; if it exposes no
\* thumbnail it reports at once.  (While the last presence call is a clear,
\* the cache is empty because it was reset.)
C16_FreshAfterReset ==
    [][\A r \in RunIds :
          /\ CacheCheck(r)
          /\ ~runs[r].force
          /\ presence = clearPresence
          /\ g_lastTrackProcessed = EmptyTrack
          =>
             /\ ~SuppressedAsDuplicate(r)
             /\ ~nowPlaying[runs[r].session].thumbnail =>
                   /\ lastRun'.path = "reported"
                   /\ Made(lastRun', "updatePresence") = 1]_vars

\* While the last presence call is a clear, the cache is empty.
CacheEmptyWhileCleared ==
    presence = clearPresence => g_lastTrackProcessed = EmptyTrack

\* C17: each update the presence reporter submits is one activity of type
\* Listening, whose large image is the track's coverArtUrl when that is not
\* empty and is unset when it is, and whose small image is the fixed badge;
\* a reporting run submits exactly one.
C17_OneListeningActivityPerUpdate ==
    [][lastRun'.path = "reported" =>
          LET url == lastRun'.track.coverArtUrl IN
          /\ Made(lastRun', "updatePresence") = 1
          /\ presence'.kind = "update"
          /\ presence'.activity.type = "Listening"
          /\ presence'.activity.details = lastRun'.track.title
          /\ presence'.activity.state = lastRun'.track.artist
          /\ url # <<>> => presence'.activity.largeImage = <<"set", url>>
          /\ url = <<>> => presence'.activity.largeImage = <<>>
          /\ presence'.activity.smallImage = "tidal-icon"]_vars

\* A track was reported with the URL the upload returned as its large image.
C17_Witness ==
    /\ lastRun.path = "reported"
    /\ lastRun.track.coverArtUrl = UrlText
    /\ presence.activity.largeImage = <<"set", UrlText>>
    /\ presence.activity.smallImage = "tidal-icon"

\* Run r has constructed its ParsingGuard (line 283) and has not returned.
Guarded(r) ==
    runs[r].pc \in {"fetch", "open", "copy", "load", "upload", "store"}

\* C18: while a run, forced or not, holds its ParsingGuard, g_isParsing is
\* true.
C18_FlagSetWhileRunning == (\E r \in RunIds : Guarded(r)) => g_isParsing

\* In this step the tray command calls parseTrack(true).
ForcedCall ==
    /\ events' # events
    /\ \/ lastRun'.force
       \/ \E r \in RunIds : ~InFlight(r) /\ InFlight(r)' /\ runs'[r].force

\* In this step run r returns.
ReturnsRun(r) == InFlight(r) /\ ~InFlight(r)'

\* Run r is in flight beside a forced run, or is a forced run beside another.
OverlapsForced(r) ==
    /\ InFlight(r)
    /\ Others(r) # {}
    /\ runs[r].force \/ \E q \in Others(r) : runs[q].force

ReturnedAndReleased ==
    lastRun.path \notin {"none", "rejected"} /\ ~g_isParsing

\* C20: every run that has passed the entry test returns and clears
\* g_isParsing when it does, whatever notifications, tray commands and other
\* runs come in between, provided the operations it awaits complete or fail.
C20_EveryRunTerminates ==
    \A r \in RunIds : InFlight(r) ~> (~InFlight(r) /\ ReturnedAndReleased)

\* A run that went through every suspension point, the upload child
\* included, has returned after all the notifications of the behaviour.
C20_Witness ==
    /\ lastRun.path = "reported"
    /\ lastRun.outcome = "spawned"
    /\ events = MaxEvents
    /\ ~g_isParsing
    /\ \A r \in RunIds : ~InFlight(r)


\* C21: an OS error at a suspension point after the metadata fetch (opening
\* the thumbnail stream, copying it, loading its bytes) is caught inside the
\* run: the run returns, it has made no presence update and no presence
\* clear, the presence is what it was, the cache is reset to empty and the
\* flag is cleared.
C21_LateErrorIsCaught ==
    [][lastRun'.path = "error" /\ lastRun'.at \in {"open", "copy", "load"} =>
          /\ Returns
          /\ lastRun'.fetched
          /\ Made(lastRun', "updatePresence") = 0
          /\ Made(lastRun', "clearPresence") = 0
          /\ UNCHANGED presence
          /\ g_lastTrackProcessed' = EmptyTrack
          /\ ~g_isParsing']_vars

\* A run failed while copying the thumbnail, after an earlier run had put an
\* activity on display: the activity stays, the cache is empty.
C21_Witness ==
    /\ lastRun.path = "error"
    /\ lastRun.at = "copy"
    /\ lastRun.fetched
    /\ presence.kind = "update"
    /\ g_lastTrackProcessed = EmptyTrack
    /\ ~g_isParsing


\* C22: in every reachable state in which no run stands between its presence
\* update (line 358) and its cache write (line 361), if the cache holds a
\* track then the most recent presence request is an update that carries the
\* cached title, artist and artwork URL.
C22_CacheMatchesPresence ==
    /\ \A r \in RunIds : runs[r].pc # "store"
    /\ g_lastTrackProcessed # EmptyTrack
    => presence = updatePresence(g_lastTrackProcessed)


\* C23: a run that called the Artwork Publisher reports the returned text as
\* coverArtUrl when the upload succeeded (the text then has no "Error:"
\* prefix); when the text is error-prefixed or empty the reported track has
\* an empty coverArtUrl and the run logs the failure; an artwork URL that is
\* reported is the returned text, which is neither empty nor error-prefixed.
C23_ArtworkOnlyFromGoodResult ==
    [][lastRun'.path = "reported" /\ lastRun'.outcome # "none" =>
          /\ UploadSucceeded(lastRun') =>
                /\ ~ErrorPrefixed(lastRun'.uploaded)
                /\ lastRun'.track.coverArtUrl = lastRun'.uploaded
          /\ ErrorPrefixed(lastRun'.uploaded) \/ lastRun'.uploaded = <<>> =>
                /\ lastRun'.track.coverArtUrl = <<>>
                /\ Stores(lastRun'.track)
                /\ lastRun'.logged = "failed"
          /\ lastRun'.track.coverArtUrl # <<>> =>
                /\ lastRun'.track.coverArtUrl = lastRun'.uploaded
                /\ ~ErrorPrefixed(lastRun'.uploaded)]_vars

\* The same without the log: which returned texts become the coverArtUrl.
ArtworkChoice ==
    [][lastRun'.path = "reported" /\ lastRun'.outcome # "none" =>
          /\ UploadSucceeded(lastRun') =>
                /\ ~ErrorPrefixed(lastRun'.uploaded)
                /\ lastRun'.track.coverArtUrl = lastRun'.uploaded
          /\ ErrorPrefixed(lastRun'.uploaded) \/ lastRun'.uploaded = <<>> =>
                /\ lastRun'.track.coverArtUrl = <<>>
                /\ Stores(lastRun'.track)
          /\ lastRun'.track.coverArtUrl # <<>> =>
                /\ lastRun'.track.coverArtUrl = lastRun'.uploaded
                /\ ~ErrorPrefixed(lastRun'.uploaded)]_vars

\* No notification is waiting and no run is under way.
Quiescent == mainPc = "loop" /\ \A r \in RunIds : runs[r].pc = "idle"

\* The presence reflects what `session` is playing: nothing is shown when the
\* session is absent or not the target application, otherwise the activity
\* carries the session's title and artist (or nothing is shown while the
\* session has neither).
Reflects(session) ==
    IF session = NoSession \/ ~IsTarget(AppId(session))
    THEN presence.kind # "update"
    ELSE \/ /\ presence.kind = "update"
            /\ presence.activity.details = nowPlaying[session].title
            /\ presence.activity.state = nowPlaying[session].artist
         \/ /\ presence.kind # "update"
            /\ nowPlaying[session].title = ""
            /\ nowPlaying[session].artist = ""

\* C24: quiescent consistency.  Once every notification has been delivered,
\* every run has returned and the last of them did not end in the catch
\* block, the presence reflects the current session: no change notification
\* is lost because its run was rejected at the entry test.
C24_QuiescentPresenceIsCurrent ==
    /\ Quiescent
    /\ g_currentSession = osCurrent
    /\ lastRun.path \in {"reported", "stored", "duplicate", "nosession",
                        "nontarget"}
    => Reflects(g_currentSession)

\* In this step run r executes line 358 (updatePresence) or line 361 (the
\* cache write) for the track it fetched.
UpdatesOrStores(r) ==
    /\ runs'[r] # runs[r]
    /\ \/ runs[r].pc \in {"fetch", "open", "copy", "load", "upload"}
          /\ lastRun'.path = "reported"
       \/ runs[r].pc = "store" /\ lastRun'.path = "stored"

\* C25: a run never issues a presence update and never writes the cache for
\* a track fetched from a session that is no longer the current session at
\* the moment of the update.
C25_NoReportForFormerSession ==
    [][\A r \in RunIds :
          UpdatesOrStores(r) => runs[r].session = g_currentSession]_vars
====
